---- MODULE Spec2Model ----
(***************************************************************************)
(* visitas-api (src/main.py): the visits table, the five handlers that     *)
(* read and write it, and the two pass-through handlers that call ViaCEP   *)
(* and the distance-service.                                               *)
(*                                                                         *)
(* Every handler is an `async def` without an await between its first and  *)
(* last statement on the table, so a handler is one atomic step.           *)
(*                                                                         *)
(* Values.  An Optional[...] value is None == <<>> or Some(x) == <<x>>.    *)
(* Text that is only compared for equality (title, status, ...) is a       *)
(* string.  Text that is ordered (date, created_at, updated_at) is a       *)
(* sequence of naturals compared as SQLite compares TEXT: element by       *)
(* element, a proper prefix first.                                         *)
(***************************************************************************)
EXTENDS Integers, Sequences, FiniteSets, TLC

VARIABLES
    store,      \* the visits table: rowid -> row
    seq,        \* sqlite_sequence for visits: the largest rowid ever used
    open,       \* connections opened by get_conn() and not closed
    lastNow,    \* the last reading of datetime.utcnow()
    monotone,   \* no reading of the clock was below the reading before it
    issued,     \* the ids returned by create_visit, in order
    last        \* the last request and the response it got

vars == <<store, seq, open, lastNow, monotone, issued, last>>

----------------------------------------------------------------------------
\* Bounds of the model.
MaxCreates == 2     \* INSERTs that succeed
MaxTime    == 1     \* clock readings are 0..MaxTime, in half seconds
MaxFaults  == 1     \* statements or commits that raise sqlite3.Error

\* Program constants.
DefaultSize == 50
MaxSize     == 100
HTTP_200    == 200
HTTP_201    == 201
HTTP_404    == 404
HTTP_422    == 422
HTTP_500    == 500
HTTP_502    == 502

----------------------------------------------------------------------------
\* Optional values.
None    == <<>>
Some(x) == <<x>>
Val(o)    == o[1]

Max(a, b) == IF a >= b THEN a ELSE b
Min(a, b) == IF a <= b THEN a ELSE b

\* TEXT comparison (BINARY collation): a < b.
RECURSIVE TextLess(_, _)
TextLess(a, b) ==
    IF a = <<>> THEN b # <<>>
    ELSE IF b = <<>> THEN FALSE
    ELSE IF Head(a) # Head(b) THEN Head(a) < Head(b)
    ELSE TextLess(Tail(a), Tail(b))

TextLeq(a, b) == a = b \/ TextLess(a, b)

\* datetime.utcnow().isoformat(): the reading t is t half seconds; isoformat
\* writes the seconds, and the fraction only when it is not zero.
Times == 0..MaxTime
isoformat(t) == IF t % 2 = 0 THEN <<t \div 2>> ELSE <<t \div 2, 5>>

----------------------------------------------------------------------------
\* VisitIn: the request bodies the model sends.
VisitIn(title, description, date, cep, address, lat, lon, responsible, status) ==
    [title |-> title, description |-> description, date |-> date, cep |-> cep,
     address |-> address, lat |-> lat, lon |-> lon, responsible |-> responsible,
     status |-> status]

Payloads ==
    { VisitIn("A", None, None, None, None, None, None, None, None),
      VisitIn("B", Some("d"), Some(<<0, 5>>), Some("30140071"), Some("Av"),
              Some(-19), Some(-43), Some("Carlos"), Some("done")),
      VisitIn("B", Some("d"), Some(<<0, 5>>), None, Some("Av"),
              Some(-19), None, Some("Ana"), Some("Done")),
      VisitIn("C", None, Some(<<1>>), Some("30140071"), None,
              None, Some(-43), None, Some("")) }

\* Python truth value of an Optional[str].
Truthy(o) == o # None /\ Val(o) # ""

\* payload.status or "scheduled"
StatusOrDefault_NoneOnly(o) == IF o # None THEN Val(o) ELSE "scheduled"
StatusOrDefault(o) == IF Truthy(o) THEN Val(o) ELSE "scheduled"

----------------------------------------------------------------------------
\* get_conn() and conn.close()
get_conn(n) == n + 1
close(n)    == n - 1

\* CREATE TABLE visits (id INTEGER PRIMARY KEY AUTOINCREMENT, ...): the rowid
\* of a new row is one more than the largest rowid the table ever held.
NextRowid_MaxPlusOne(st, sq) ==
    IF DOMAIN st = {} THEN 1
    ELSE (CHOOSE i \in DOMAIN st : \A j \in DOMAIN st : j <= i) + 1
NextRowid(st, sq) == sq + 1

\* INSERT INTO visits (...) VALUES (...)
InsertRow_LatForLon(vid, p, now) ==
    [id |-> vid, title |-> p.title, description |-> p.description,
     date |-> p.date, cep |-> p.cep, address |-> p.address,
     city |-> None, uf |-> None, lat |-> p.lat, lon |-> p.lat,
     responsible |-> p.responsible,
     status |-> Some(StatusOrDefault(p.status)),
     created_at |-> Some(isoformat(now)), updated_at |-> Some(isoformat(now))]
InsertRow(vid, p, now) ==
    [id |-> vid, title |-> p.title, description |-> p.description,
     date |-> p.date, cep |-> p.cep, address |-> p.address,
     city |-> None, uf |-> None, lat |-> p.lat, lon |-> p.lon,
     responsible |-> p.responsible,
     status |-> Some(StatusOrDefault(p.status)),
     created_at |-> Some(isoformat(now)), updated_at |-> Some(isoformat(now))]

\* UPDATE visits SET ... WHERE id=?, on the row it matches
UpdateRow(row, p, now) ==
    [row EXCEPT !.title = p.title, !.description = p.description,
                !.date = p.date, !.cep = p.cep, !.address = p.address,
                !.lat = p.lat, !.lon = p.lon, !.responsible = p.responsible,
                !.status = Some(StatusOrDefault(p.status)),
                !.updated_at = Some(isoformat(now))]

\* The table after the statement.
Inserted(st, vid, p, now) ==
    [i \in DOMAIN st \cup {vid} |-> IF i = vid THEN InsertRow(vid, p, now) ELSE st[i]]

Updated_NoWhere(st, visit_id, p, now) ==
    [i \in DOMAIN st |-> UpdateRow(st[i], p, now)]
Updated(st, visit_id, p, now) ==
    [i \in DOMAIN st |-> IF i = visit_id THEN UpdateRow(st[i], p, now) ELSE st[i]]

Deleted_UpTo(st, visit_id) ==
    [i \in {j \in DOMAIN st : j > visit_id} |-> st[i]]
Deleted(st, visit_id) ==
    [i \in DOMAIN st \ {visit_id} |-> st[i]]

----------------------------------------------------------------------------
\* The handlers as functions of the table: what they return.

Response(code, body) == [code |-> code, body |-> body]

\* ORDER BY COALESCE(date, created_at) DESC
SortKey(row) == IF row.date # None THEN Val(row.date) ELSE Val(row.created_at)

\* r comes before o in the result.  Rows with equal keys come out in the order
\* of the table scan, which is by rowid: SQLite's sorter for ORDER BY ... LIMIT
\* keys each row by (key, sequence number of the scan).
Before(r, o) ==
    \/ TextLess(SortKey(o), SortKey(r))
    \/ SortKey(r) = SortKey(o) /\ r.id < o.id

RECURSIVE OrderBy(_)
OrderBy(rows) ==
    IF rows = {} THEN <<>>
    ELSE LET first == CHOOSE r \in rows : \A o \in rows \ {r} : Before(r, o)
         IN  <<first>> \o OrderBy(rows \ {first})

\* {where}: "WHERE status = ?" if status, else ""
Where(st, status) ==
    IF Truthy(status)
    THEN {st[i] : i \in {j \in DOMAIN st : st[j].status = Some(Val(status))}}
    ELSE {st[i] : i \in DOMAIN st}

\* LIMIT ? OFFSET ?
LimitOffset_OneMore(rows, size, offset) ==
    SubSeq(rows, offset + 1, Min(offset + size + 1, Len(rows)))
LimitOffset(rows, size, offset) ==
    SubSeq(rows, offset + 1, Min(offset + size, Len(rows)))

ListVisits(st, page, size, status) ==
    LET page1  == Max(page, 1)
        size1  == Min(Max(size, 1), MaxSize)
        offset == (page1 - 1) * size1
    IN  Response(HTTP_200, LimitOffset(OrderBy(Where(st, status)), size1, offset))

\* Path(..., gt=0) rejects the request before the handler runs.
GetVisit(st, visit_id) ==
    IF visit_id <= 0 THEN Response(HTTP_422, "validation error")
    ELSE IF visit_id \notin DOMAIN st THEN Response(HTTP_404, "Visit not found")
    ELSE Response(HTTP_200, st[visit_id])

UpdateVisit(st, visit_id, p, now) ==
    [store |-> Updated(st, visit_id, p, now),
     resp  |-> Response(HTTP_200, [updated |-> visit_id])]

DeleteVisit(st, visit_id) ==
    [store |-> Deleted(st, visit_id),
     resp  |-> Response(HTTP_200, [deleted |-> visit_id])]

CreateVisit(st, sq, p, now) ==
    LET vid == NextRowid(st, sq)
    IN  [store |-> Inserted(st, vid, p, now),
         resp  |-> Response(HTTP_201, [id |-> vid])]

----------------------------------------------------------------------------
\* The two upstream services.  One request gets no response (connection error
\* or timeout: httpx raises) or a response with a status and a body; a body is
\* JSON or it is not.
Json(value) == [json |-> TRUE, value |-> value]
NotJson     == [json |-> FALSE, value |-> [text |-> "<html>"]]
NoResponse  == [raised |-> TRUE, status_code |-> 0, body |-> NotJson]
HttpResponse(status_code, body) ==
    [raised |-> FALSE, status_code |-> status_code, body |-> body]

ViaCepBodies ==
    { Json([erro |-> TRUE]),
      Json([cep |-> "30140-071", logradouro |-> "Avenida Afonso Pena", uf |-> "MG"]),
      NotJson }
DistanceBodies == { Json([distance_km |-> 12]), NotJson }

Upstream(bodies) ==
    {NoResponse}
    \cup {HttpResponse(HTTP_200, b) : b \in bodies}
    \cup {HttpResponse(c, NotJson) : c \in {HTTP_404, HTTP_500}}

\* "".join(filter(str.isdigit, cep))
isdigit(c) == c \in {"0", "1", "2", "3", "4", "5", "6", "7", "8", "9"}
cep_clean(cep) == SelectSeq(cep, isdigit)

\* data.get("erro")
Erro(data) == "erro" \in DOMAIN data /\ data.erro

\* via_cep after the one client.get(url, timeout=10) got r (or raised).
ViaCep(r) ==
    IF r.raised THEN Response(HTTP_502, "Erro ao acessar ViaCEP")
    ELSE IF r.status_code # HTTP_200 THEN Response(HTTP_502, "ViaCEP retornou erro")
    ELSE IF ~r.body.json THEN Response(HTTP_500, "Internal Server Error")
    ELSE IF Erro(r.body.value) THEN Response(HTTP_404, "CEP nao encontrado")
    ELSE Response(HTTP_200, r.body.value)

DistanceCheck_AnyStatus(r) ==
    IF r.raised THEN Response(HTTP_502, "Erro ao contatar distance-service")
    ELSE IF ~r.body.json THEN Response(HTTP_500, "Internal Server Error")
    ELSE Response(HTTP_200, r.body.value)
\* distance_check after the one client.post(url, json=..., timeout=10).
DistanceCheck(r) ==
    IF r.raised THEN Response(HTTP_502, "Erro ao contatar distance-service")
    ELSE IF r.status_code # HTTP_200 THEN Response(HTTP_502, "distance-service retornou erro")
    ELSE IF ~r.body.json THEN Response(HTTP_500, "Internal Server Error")
    ELSE Response(HTTP_200, r.body.value)

\* The requests the model sends.
IdInputs     == 0..(MaxCreates + 1)
PageInputs   == {0, 1, 2}
SizeInputs   == {0, 1, DefaultSize, MaxSize + 1}
StatusInputs == {None, Some(""), Some("done")}
CepInputs    == {<<"3", "0", "1", "4", "0", "-", "0", "7", "1">>, <<"a", "b">>}
DistanceIds  == {1, MaxCreates + 1}
Points       == [origin : {[lat |-> -19, lon |-> -43]},
                 destination : {[lat |-> -20, lon |-> -44]}]

Last(op, arg, resp, calls) ==
    [op |-> op, arg |-> arg, code |-> resp.code, body |-> resp.body, calls |-> calls]

\* init_db() on an empty database file.
Init ==
    /\ store = <<>>
    /\ seq = 0
    /\ open = 0
    /\ lastNow = 0
    /\ monotone = TRUE
    /\ issued = <<>>
    /\ last = Last("startup", None, Response(HTTP_200, None), 0)

ReadClock(now) ==
    /\ lastNow' = now
    /\ monotone' = (monotone /\ now >= lastNow)

create_visit(payload, now) ==
    /\ Len(issued) < MaxCreates
    /\ LET r == CreateVisit(store, seq, payload, now)
       IN  /\ store' = r.store
           /\ seq' = Max(seq, r.resp.body.id)
           /\ issued' = Append(issued, r.resp.body.id)
           /\ last' = Last("create", payload, r.resp, 0)
    /\ ReadClock(now)
    /\ open' = close(get_conn(open))

list_visits(page, size, status) ==
    /\ last' = Last("list", [page |-> page, size |-> size, status |-> status],
                    ListVisits(store, page, size, status), 0)
    /\ open' = close(get_conn(open))
    /\ UNCHANGED <<store, seq, lastNow, monotone, issued>>

get_visit(visit_id) ==
    /\ last' = Last("get", visit_id, GetVisit(store, visit_id), 0)
    /\ open' = IF visit_id <= 0 THEN open ELSE close(get_conn(open))
    /\ UNCHANGED <<store, seq, lastNow, monotone, issued>>

update_visit(visit_id, payload, now) ==
    /\ LET r == UpdateVisit(store, visit_id, payload, now)
       IN  /\ store' = r.store
           /\ last' = Last("update", [id |-> visit_id, payload |-> payload], r.resp, 0)
    /\ ReadClock(now)
    /\ open' = close(get_conn(open))
    /\ UNCHANGED <<seq, issued>>

delete_visit(visit_id) ==
    /\ LET r == DeleteVisit(store, visit_id)
       IN  /\ store' = r.store
           /\ last' = Last("delete", visit_id, r.resp, 0)
    /\ open' = close(get_conn(open))
    /\ UNCHANGED <<seq, lastNow, monotone, issued>>

\* One outbound GET to ViaCEP, whatever comes back.
via_cep(cep, r) ==
    /\ last' = Last("via_cep",
                    [cep |-> cep, upstream |-> r,
                     sent |-> <<[method |-> "GET", cep |-> cep_clean(cep)]>>],
                    ViaCep(r), 1)
    /\ UNCHANGED <<store, seq, open, lastNow, monotone, issued>>

\* One outbound POST to the distance-service; visit_id is not looked up.
distance_check(visit_id, payload, r) ==
    /\ last' = Last("distance_check",
                    [visit_id |-> visit_id, upstream |-> r,
                     sent |-> <<[method |-> "POST",
                                 json |-> [from |-> payload.origin,
                                           to |-> payload.destination]]>>],
                    DistanceCheck(r), 1)
    /\ UNCHANGED <<store, seq, open, lastNow, monotone, issued>>

\* A statement or the commit raises sqlite3.Error: the handler ends there, with
\* nothing committed, and the lines after it (conn.close() among them) do not
\* run.  create_visit and update_visit have read the clock by then.
StoreOps == {"create", "list", "get", "update", "delete"}

storage_error(op, now) ==
    /\ open < MaxFaults
    /\ open' = get_conn(open)
    /\ last' = Last(op, None, Response(HTTP_500, "Internal Server Error"), 0)
    /\ IF op \in {"create", "update"}
       THEN ReadClock(now)
       ELSE UNCHANGED <<lastNow, monotone>>
    /\ UNCHANGED <<store, seq, issued>>

Next ==
    \/ \E p \in Payloads, now \in Times : create_visit(p, now)
    \/ \E page \in PageInputs, size \in SizeInputs, s \in StatusInputs :
           list_visits(page, size, s)
    \/ \E id \in IdInputs : get_visit(id)
    \/ \E id \in IdInputs, p \in Payloads, now \in Times : update_visit(id, p, now)
    \/ \E id \in IdInputs : delete_visit(id)
    \/ \E cep \in CepInputs, r \in Upstream(ViaCepBodies) : via_cep(cep, r)
    \/ \E id \in DistanceIds, p \in Points, r \in Upstream(DistanceBodies) :
           distance_check(id, p, r)

Spec == Init /\ [][Next]_vars

\* The same handlers when the storage engine may fail.
NextFault ==
    \/ Next
    \/ \E op \in StoreOps, now \in Times : storage_error(op, now)

SpecFault == Init /\ [][NextFault]_vars

----------------------------------------------------------------------------
\* Properties.

Rows(st) == {st[i] : i \in DOMAIN st}
SameFields(row, p) ==
    /\ row.title = p.title /\ row.description = p.description
    /\ row.date = p.date /\ row.cep = p.cep /\ row.address = p.address
    /\ row.lat = p.lat /\ row.lon = p.lon /\ row.responsible = p.responsible
\* A step that is not a stuttering step and ends with last.op = "update" is a
\* step of update_visit, with the request in last.arg.
OthersUnchanged(id) ==
    \A j \in DOMAIN store \ {id} : j \in DOMAIN store' /\ store'[j] = store[j]

\* C1: update of an id that is not in the store signals NotFound and leaves
\* the store as it was.
C1_UpdateMissingIsNotFound ==
    [][(last'.op = "update" /\ last'.arg.id \notin DOMAIN store)
           => (last'.code = HTTP_404 /\ store' = store)]_vars

\* C2: after create, get of the returned id returns the input's fields, the
\* input's status or "scheduled" when that is omitted or empty, and
\* created_at = updated_at; the returned id is a positive integer.
C2_CreateThenGet ==
    last.op = "create" =>
        LET vid == last.body.id
            got == GetVisit(store, vid)
        IN  /\ last.code = HTTP_201
            /\ vid \in Nat /\ vid > 0
            /\ got.code = HTTP_200
            /\ got.body.id = vid
            /\ SameFields(got.body, last.arg)
            /\ IF last.arg.status \in {None, Some("")}
               THEN got.body.status = Some("scheduled")
               ELSE got.body.status = last.arg.status
            /\ got.body.created_at # None
            /\ got.body.created_at = got.body.updated_at

C2_Witness ==
    /\ last.op = "create"
    /\ last.arg.status = Some("")
    /\ last.arg.lon # None
    /\ Cardinality(DOMAIN store) = 2

\* C3, as stated: update of an existing id overwrites every mutable field,
\* status included, with the supplied value, does not lower updated_at, and
\* leaves id, created_at and every other record alone.
C3_UpdateOverwritesAll ==
    [][(last'.op = "update" /\ last'.arg.id \in DOMAIN store) =>
          LET id == last'.arg.id
              p  == last'.arg.payload
          IN
              /\ id \in DOMAIN store'
              /\ SameFields(store'[id], p)
              /\ store'[id].status = p.status
              /\ TextLeq(Val(store[id].updated_at), Val(store'[id].updated_at))
              /\ store'[id].id = store[id].id
              /\ store'[id].created_at = store[id].created_at
              /\ OthersUnchanged(id)]_vars

\* C3, amended: status becomes the supplied status, or "scheduled" when that
\* is omitted or empty; updated_at becomes the reading of the clock, which is
\* not below the old value when the clock has never run backwards.
C3_UpdateOverwrites ==
    [][(last'.op = "update" /\ last'.arg.id \in DOMAIN store) =>
          LET id == last'.arg.id
              p  == last'.arg.payload
          IN
              /\ last'.code = HTTP_200
              /\ DOMAIN store' = DOMAIN store
              /\ SameFields(store'[id], p)
              /\ store'[id].status =
                     (IF p.status \in {None, Some("")} THEN Some("scheduled") ELSE p.status)
              /\ store'[id].updated_at = Some(isoformat(lastNow'))
              /\ monotone' =>
                     TextLeq(Val(store[id].updated_at), Val(store'[id].updated_at))
              /\ store'[id].id = store[id].id
              /\ store'[id].city = store[id].city /\ store'[id].uf = store[id].uf
              /\ store'[id].created_at = store[id].created_at
              /\ OthersUnchanged(id)]_vars

C3_Witness ==
    /\ last.op = "update"
    /\ last.arg.id \in DOMAIN store
    /\ Cardinality(DOMAIN store) = 2
    /\ last.arg.payload.status = None
    /\ monotone
    /\ store[last.arg.id].created_at # store[last.arg.id].updated_at

\* C4: get of a (positive) id that is not stored signals NotFound; delete of
\* an id that is not stored succeeds and changes nothing; delete of a stored id
\* removes that record and no other, get then signals NotFound, and a second
\* delete gives the same store and the same response.  The state after a delete
\* is such a state.
C4_DeleteIdempotent ==
    /\ \A id \in IdInputs \ DOMAIN store :
           LET d == DeleteVisit(store, id)
           IN  /\ id > 0 => GetVisit(store, id).code = HTTP_404
               /\ d.resp.code = HTTP_200
               /\ d.store = store
    /\ \A id \in DOMAIN store :
           LET d == DeleteVisit(store, id)
           IN  /\ d.resp.code = HTTP_200
               /\ DOMAIN d.store = DOMAIN store \ {id}
               /\ \A j \in DOMAIN d.store : d.store[j] = store[j]
               /\ GetVisit(d.store, id).code = HTTP_404
               /\ DeleteVisit(d.store, id) = d
    /\ last.op = "delete" =>
           /\ last.code = HTTP_200
           /\ last.arg \notin DOMAIN store
           /\ DeleteVisit(store, last.arg).store = store
           /\ DeleteVisit(store, last.arg).resp = Response(last.code, last.body)

C4_Witness ==
    /\ last.op = "delete"
    /\ \E i \in 1..Len(issued) : issued[i] = last.arg
    /\ Cardinality(DOMAIN store) = 1

\* C5: page 1 and page 2 of size N share no record and, one after the other,
\* are page 1 of size 2N, for N in 1..50; every page is in descending order of
\* COALESCE(date, created_at), ties included; a size above 100 is 100, a size
\* below 1 is 1, a page below 1 is 1.  Stated of the store a list request
\* has just read, with the filter of that request.
DateOrCreated(row) == IF row.date = None THEN row.created_at[1] ELSE row.date[1]
Descending(rows) ==
    \A i, j \in 1..Len(rows) :
        i < j => TextLeq(DateOrCreated(rows[j]), DateOrCreated(rows[i]))

C6_FilterExact ==
    (last.op = "list" /\ last.arg.status # None) =>
        \A i \in 1..Len(last.body) : last.body[i].status = last.arg.status

C8_IdsNeverReused ==
    /\ \A i, j \in 1..Len(issued) : i < j => issued[i] < issued[j]
    /\ \A i, j \in DOMAIN store : store[i].id = store[j].id => i = j
    /\ \A i \in DOMAIN store : store[i].id = i /\ \E k \in 1..Len(issued) : issued[k] = i

\* The last create ran after every earlier record, the one with the highest
\* id among them, had been deleted.
C8_Witness ==
    /\ last.op = "create"
    /\ Len(issued) >= 2
    /\ DOMAIN store = {last.body.id}

\* C9: every stored record has a status that is neither null nor empty, and,
\* when the clock never ran backwards, created_at <= updated_at.
C9_StatusAndTimestamps ==
    \A i \in DOMAIN store :
        /\ store[i].status # None
        /\ Val(store[i].status) # ""
        /\ monotone => TextLeq(Val(store[i].created_at), Val(store[i].updated_at))

C9_Witness ==
    /\ last.op = "update"
    /\ monotone
    /\ last.arg.payload.status = Some("")
    /\ \E i \in DOMAIN store : store[i].created_at # store[i].updated_at
    /\ \E i \in DOMAIN store : store[i].created_at = store[i].updated_at

\* C10: no connection a handler opened is open after the handler has ended.
C10_HandlesReleased == open = 0

====
